---- MODULE Spec2Model ----
(***************************************************************************)
(* Imara: the event-driven coordination core.                              *)
(*   - EventManager (src/src/core.rs): double-buffered engine events, the  *)
(*     pending collection and its staging list.                            *)
(*   - World (src/src/game_world/world.rs): entity ids, component arrays,  *)
(*     the resource store and the resource loading thread.                 *)
(*   - Physics / Renderer (src/src/systems): the consumers of the bus.     *)
(*   - the main loop (src/src/main.rs).                                    *)
(* window_events, drawing, the physics stepper and the UI tree are left    *)
(* out: they do not touch the state modelled here.                         *)
(***************************************************************************)
EXTENDS Integers, Sequences, FiniteSets, TLC

\* ------------------------------------------------------------------ bounds
\* cap on the process-wide event counter EVENT_IDS in the main loop
MaxEvents == 3
\* cap on EVENT_IDS when the bus is driven by its callers' protocol alone
MaxBusEvents == 2
\* cap on the process-wide entity counter ENTITY_ID
MaxEntities == 2
\* cap on the rigid bodies Physics inserts
MaxBodies == 3
\* the entities of the scenario of three entities sharing one mesh
ScenarioEntities == 3
\* requests queued for the loader when Resources::add_resource is taken alone
MaxRequests == 2
\* calls of create_shader for one shader name
MaxCompiles == 2
\* the longest index list of a mesh and the greatest index in it
MaxIndices == 6
MaxIndex == 1
\* the colliders, the times of impact and the entities of a ray cast
MaxColliders == 3
MaxToi == 2
RayEntities == 2

\* ------------------------------------------------------------- vocabulary
PhysicsSystem == "PhysicsSystem"
RenderSystem == "RenderSystem"
SystemType == {RenderSystem, PhysicsSystem}

\* Option::None for an entity id
NoEntity == -1

\* Option::None for a component slot or a mesh payload
None == "None"
\* the mesh files the editor offers (OBJ_ASSETS_DIR)
MeshKeys == {"cube.obj"}
\* the shader names the program registers
ShaderKeys == {"font_shader", "quad_shader"}

VARIABLES
    EVENT_IDS,          \* static mut EVENT_IDS
    event_manager,      \* the EventManager
    ENTITY_ID,          \* static mut ENTITY_ID
    world,              \* World: entities, deleted_entities, components
    mesh_data,          \* Resources::mesh_data, behind World::resources (RwLock)
    shaders,            \* Resources::shaders, behind the same RwLock
    rw_lock,            \* the RwLock of World::resources
    resource_queue,     \* World::resource_queue, the list behind the Mutex
    queue_mutex,        \* the Mutex of World::resource_queue
    loader,             \* the resource loading thread: its position and its item
    physics,            \* Physics: bodies and colliders
    renderer,           \* Renderer: normal_objects
    pc,                 \* position of the main thread in its tick
    snapshot,           \* the Vec the Renderer iterates in handle_system_events
    idx,                \* index of the next event of snapshot to handle
    panicked,           \* the main thread has panicked
    hist                \* history of the calls made, for stating the properties

busVars == <<EVENT_IDS, event_manager>>
worldVars == <<ENTITY_ID, world>>
resourceVars == <<mesh_data, shaders, rw_lock, resource_queue, queue_mutex, loader>>
systemVars == <<physics, renderer>>
mainVars == <<pc, snapshot, idx, panicked>>
vars == <<EVENT_IDS, event_manager, ENTITY_ID, world, mesh_data, shaders, rw_lock, resource_queue,
          queue_mutex, loader, physics, renderer, pc, snapshot, idx, panicked, hist>>

\* -------------------------------------------------------- sequence helpers
Contains(s, x) == \E i \in 1..Len(s) : s[i] = x
Ids(s) == {s[i].id : i \in 1..Len(s)}
HasId(s, id) == \E i \in 1..Len(s) : s[i].id = id
\* index of the first element with this id (Iterator::find)
FirstWithId(s, id) == CHOOSE i \in 1..Len(s) : s[i].id = id /\ \A j \in 1..(i - 1) : s[j].id # id

\* ------------------------------------------------------------------ Event
\* Event::new without the counter: every event gets id 0
Event_new_constant_id(counter, kind, entity) ==
    [id |-> 0,
     event_type |-> [kind |-> kind, entity |-> entity, ray |-> <<>>],
     pending_systems |-> <<>>]

Event_new(counter, kind, entity) ==
    [id |-> counter,
     event_type |-> [kind |-> kind, entity |-> entity, ray |-> <<>>],
     pending_systems |-> <<>>]

\* Event::new(EventType::CastRay(CastRayDat { id: 0, ray })).  A ray is what
\* interferences_with_ray makes of it: the colliders it meets, each with its
\* time of impact, in the order the iterator yields them
CastRay_new(counter, ray) ==
    [id |-> counter,
     event_type |-> [kind |-> "CastRay", entity |-> NoEntity, ray |-> ray],
     pending_systems |-> <<>>]

\* register_pending_system without the look at the systems already there
register_pending_system_again(event, register_system) ==
    [event EXCEPT !.pending_systems = Append(@, register_system)]

register_pending_system(event, register_system) ==
    IF Contains(event.pending_systems, register_system)
    THEN event
    ELSE [event EXCEPT !.pending_systems = Append(@, register_system)]

remove_pending_system(event, remove_system) ==
    [event EXCEPT !.pending_systems = SelectSeq(@, LAMBDA x : x # remove_system)]

is_pending_for(event, system) == Contains(event.pending_systems, system)

\* ----------------------------------------------------------- EventManager
EventManager_new ==
    [which_buff |-> TRUE,
     engine_events |-> <<>>,
     engine_events1 |-> <<>>,
     pending_events |-> <<>>,
     pending_events_for_the_next_cycle |-> <<>>]

add_event(em, event) ==
    IF em.which_buff
    THEN [em EXCEPT !.engine_events = Append(@, event)]
    ELSE [em EXCEPT !.engine_events1 = Append(@, event)]

\* add_engine_event pushing into the buffer being read
add_engine_event_same_buffer(em, event) == add_event(em, event)

add_engine_event(em, event) ==
    IF ~em.which_buff
    THEN [em EXCEPT !.engine_events = Append(@, event)]
    ELSE [em EXCEPT !.engine_events1 = Append(@, event)]

\* get_engine_events with the pending collection ahead of the buffer
get_engine_events_pending_first(em) ==
    IF em.which_buff
    THEN em.pending_events \o em.engine_events
    ELSE em.pending_events \o em.engine_events1

get_engine_events(em) ==
    IF em.which_buff
    THEN em.engine_events \o em.pending_events
    ELSE em.engine_events1 \o em.pending_events

\* add_pending pushing a new pending event onto the live collection
add_pending_live(em, event, system_type) ==
    IF HasId(em.pending_events, event.id)
    THEN LET i == FirstWithId(em.pending_events, event.id)
         IN  [em EXCEPT !.pending_events[i] = register_pending_system(@, system_type)]
    ELSE [em EXCEPT !.pending_events =
                        Append(@, register_pending_system(event, system_type))]

add_pending(em, event, system_type) ==
    IF HasId(em.pending_events, event.id)
    THEN LET i == FirstWithId(em.pending_events, event.id)
         IN  [em EXCEPT !.pending_events[i] = register_pending_system(@, system_type)]
    ELSE [em EXCEPT !.pending_events_for_the_next_cycle =
                        Append(@, register_pending_system(event, system_type))]

\* the unwrap() of remove_pending fails: no live pending event has this id
\* find() stopping at the first live pending event
remove_pending_panics_past_first(em, event_id) ==
    em.pending_events = <<>> \/ Head(em.pending_events).id # event_id

remove_pending_panics(em, event_id) == ~HasId(em.pending_events, event_id)

remove_pending(em, event_id, system_type) ==
    LET i == FirstWithId(em.pending_events, event_id)
        event == remove_pending_system(em.pending_events[i], system_type)
        is_pending_systems_empty == event.pending_systems = <<>>
    IN  IF is_pending_systems_empty
        THEN [em EXCEPT !.pending_events = SelectSeq(@, LAMBDA x : x.id # event_id)]
        ELSE [em EXCEPT !.pending_events[i] = event]

\* Vec::dedup with Event's PartialEq (by id): drops an element equal to the one before it
RECURSIVE dedup(_)
dedup(s) ==
    IF Len(s) <= 1
    THEN s
    ELSE LET r == dedup(SubSeq(s, 1, Len(s) - 1))
         IN  IF s[Len(s)].id = r[Len(r)].id THEN r ELSE Append(r, s[Len(s)])

\* clear inverting the flag over a buffer it leaves as it is
clear_keeps_buffer(em) ==
    [which_buff |-> ~em.which_buff,
     engine_events |-> em.engine_events,
     engine_events1 |-> em.engine_events1,
     pending_events |-> dedup(em.pending_events \o em.pending_events_for_the_next_cycle),
     pending_events_for_the_next_cycle |-> <<>>]

\* clear emptying the staging list without the merge
clear_forgets_staging(em) ==
    [which_buff |-> ~em.which_buff,
     engine_events |-> IF em.which_buff THEN <<>> ELSE em.engine_events,
     engine_events1 |-> IF em.which_buff THEN em.engine_events1 ELSE <<>>,
     pending_events |-> dedup(em.pending_events),
     pending_events_for_the_next_cycle |-> <<>>]

clear(em) ==
    [which_buff |-> ~em.which_buff,
     engine_events |-> IF em.which_buff THEN <<>> ELSE em.engine_events,
     engine_events1 |-> IF em.which_buff THEN em.engine_events1 ELSE <<>>,
     pending_events |-> dedup(em.pending_events \o em.pending_events_for_the_next_cycle),
     pending_events_for_the_next_cycle |-> <<>>]

\* ------------------------------------------------------------------ World
Components_new ==
    [renderables |-> <<>>, positionable |-> <<>>, physics |-> <<>>, highlightable |-> <<>>]

\* Option<PhysicsComponent>::None; the handles of a component are -1 while None
NoPhysics == [some |-> FALSE, rigid_handle |-> -1, collider_handle |-> -1]
PhysicsComponent_new == [some |-> TRUE, rigid_handle |-> -1, collider_handle |-> -1]

create_entry(components) ==
    [renderables |-> Append(components.renderables, None),
     positionable |-> Append(components.positionable, None),
     physics |-> Append(components.physics, NoPhysics),
     highlightable |-> Append(components.highlightable, None)]

World_new == [entities |-> <<>>, deleted_entities |-> <<>>, components |-> Components_new]

\* the slot of entity id in a component array (ids count from 0)
Slot(array, id) == array[id + 1]

\* the program state World::create_entity works on, and the id it returns
program(w, entity_counter, em, event_counter) ==
    [world |-> w, ENTITY_ID |-> entity_counter, event_manager |-> em,
     EVENT_IDS |-> event_counter, id |-> NoEntity]

\* create_entity announcing the ids it takes from the counter only
create_entity_recycles_silently(st) ==
    LET w == st.world
        recycle == w.deleted_entities # <<>>
        id == IF recycle THEN Head(w.deleted_entities) ELSE st.ENTITY_ID
        w1 == IF recycle
              THEN [w EXCEPT !.deleted_entities = Tail(@),
                             !.entities = Append(@, id)]
              ELSE [w EXCEPT !.entities = Append(@, id),
                             !.components = create_entry(@)]
    IN  [world |-> w1,
         ENTITY_ID |-> IF recycle THEN st.ENTITY_ID ELSE st.ENTITY_ID + 1,
         event_manager |-> IF recycle THEN st.event_manager
                           ELSE add_event(st.event_manager,
                                          Event_new(st.EVENT_IDS, "EntityCreated", id)),
         EVENT_IDS |-> st.EVENT_IDS + 1,
         id |-> id]

\* create_entity appending a blank entry for a recycled id too
create_entity_always_appends(st) ==
    LET w == st.world
        recycle == w.deleted_entities # <<>>
        id == IF recycle THEN Head(w.deleted_entities) ELSE st.ENTITY_ID
        w1 == IF recycle
              THEN [w EXCEPT !.deleted_entities = Tail(@),
                             !.entities = Append(@, id),
                             !.components = create_entry(@)]
              ELSE [w EXCEPT !.entities = Append(@, id),
                             !.components = create_entry(@)]
    IN  [world |-> w1,
         ENTITY_ID |-> IF recycle THEN st.ENTITY_ID ELSE st.ENTITY_ID + 1,
         event_manager |-> add_event(st.event_manager, Event_new(st.EVENT_IDS, "EntityCreated", id)),
         EVENT_IDS |-> st.EVENT_IDS + 1,
         id |-> id]

create_entity(st) ==
    LET w == st.world
        recycle == w.deleted_entities # <<>>
        id == IF recycle THEN Head(w.deleted_entities) ELSE st.ENTITY_ID
        w1 == IF recycle
              THEN [w EXCEPT !.deleted_entities = Tail(@),
                             !.entities = Append(@, id)]
              ELSE [w EXCEPT !.entities = Append(@, id),
                             !.components = create_entry(@)]
    IN  [world |-> w1,
         ENTITY_ID |-> IF recycle THEN st.ENTITY_ID ELSE st.ENTITY_ID + 1,
         event_manager |-> add_event(st.event_manager, Event_new(st.EVENT_IDS, "EntityCreated", id)),
         EVENT_IDS |-> st.EVENT_IDS + 1,
         id |-> id]

\* Removal: the id goes onto deleted_entities and an EntityRemoved event onto the
\* bus, the mirror image of create_entity.  No code of the repository does it.
remove_entity_from_world(st, id) ==
    [st EXCEPT !.world.deleted_entities = Append(@, id),
               !.event_manager = add_event(@, Event_new(st.EVENT_IDS, "EntityRemoved", id)),
               !.EVENT_IDS = @ + 1,
               !.id = id]

\* the components the editor gives a new entity (editor.rs:159-172)
editor_components(w, id, mesh_label) ==
    [w EXCEPT !.components.renderables[id + 1] = mesh_label,
              !.components.positionable[id + 1] = "Some",
              !.components.physics[id + 1] = PhysicsComponent_new]

\* the components a loaded entity gets (world.rs:405-446)
loaded_components(w, id, mesh_label, has_transform) ==
    [w EXCEPT !.components.renderables[id + 1] = IF mesh_label # None THEN mesh_label ELSE @,
              !.components.positionable[id + 1] = IF has_transform THEN "Some" ELSE @]

\* -------------------------------------------------------------- Resources
\* a key without an entry in the HashMap
\* obj.indices of the one face of the mesh file: load_obj pushes one index
\* for each vertex of a face, less one (obj_parser.rs:181-199)
FaceIndices == <<0, 1, 2>>
\* `indices` is obj.indices of MeshType::Normal(obj), empty while mesh_type is None
NoMesh == [present |-> FALSE, mesh_type |-> None, is_loaded |-> FALSE, indices |-> <<>>]
Mesh_new == [present |-> TRUE, mesh_type |-> None, is_loaded |-> FALSE, indices |-> <<>>]
\* the entry once load_obj has returned (world.rs:137-139)
\* the entry flagged as loaded without its payload
Mesh_flagged(mesh) == [mesh EXCEPT !.is_loaded = TRUE]
Mesh_loaded(mesh) ==
    [mesh EXCEPT !.mesh_type = "Normal", !.is_loaded = TRUE, !.indices = FaceIndices]

Resources_new == [k \in MeshKeys |-> NoMesh]

\* Resources::add_resource for a mesh, up to the call of load_obj
\* (world.rs:117-128): the cached entry returns, a new key gets its
\* placeholder, an entry that is there and not loaded is unreachable!()
\* add_resource without the look at the cache
add_resource_no_cache(store, key) ==
    [mesh_data |-> [store EXCEPT ![key] = Mesh_new], next |-> "load"]

add_resource(store, key) ==
    IF store[key].present /\ store[key].is_loaded
    THEN [mesh_data |-> store, next |-> "return"]
    ELSE IF ~store[key].present
    THEN [mesh_data |-> [store EXCEPT ![key] = Mesh_new], next |-> "load"]
    ELSE [mesh_data |-> store, next |-> "panic"]

\* a shader name without an entry in the HashMap
NoShader == "absent"
\* Some(program) as create_shader returns it
Compiled == "Some"
Shaders_new == [k \in ShaderKeys |-> NoShader]

\* World::add_resource for a shader under resources.write() (world.rs:223-245):
\* insert(name, None), create_shader(..).unwrap(), insert(name, Some(shader)).
\* `shader` is what create_shader returns, None for its Err.
add_shader(store, name, shader) ==
    LET placeholder == [store EXCEPT ![name] = None]
    IN  IF shader = None
        THEN [shaders |-> placeholder, panics |-> TRUE]
        ELSE [shaders |-> [placeholder EXCEPT ![name] = shader], panics |-> FALSE]

\* ------------------------------------------------------------ history
EventIdSpace == 0..((IF MaxEvents > MaxBusEvents THEN MaxEvents ELSE MaxBusEvents) - 1)

NoRemoval == [called |-> FALSE, live |-> FALSE, failed |-> FALSE, kept |-> TRUE]
hist_new ==
    [engine_now |-> {},    \* ids pushed with add_engine_event in this tick
     engine_prev |-> {},   \* ids pushed with add_engine_event in the tick before
     adders |-> [i \in EventIdSpace |-> {}],    \* systems that called add_pending(e, .)
     removers |-> [i \in EventIdSpace |-> {}],  \* those of them that called remove_pending(e.id, .) since
     due |-> {},           \* ids both systems had called add_pending for at the last clear()
     gone |-> {},          \* ids both systems had also called remove_pending for at the last clear()
     delivered |-> [i \in EventIdSpace |-> {}],  \* systems get_engine_events() returned e to
     requests |-> [k \in MeshKeys |-> 0],        \* requests for k taken off the resource queue
     loads |-> [k \in MeshKeys |-> 0],           \* calls of load_obj for k
     compiles |-> [k \in ShaderKeys |-> 0],     \* calls of create_shader for k
     handed_out |-> [recycled |-> FALSE, blank |-> TRUE],  \* the last create_entity
     ready |-> FALSE,      \* every mesh was loaded and readable when the systems began
     blocked |-> [s \in SystemType |-> {}],  \* EntityCreated events of this tick s met with try_read() failing
     event_now |-> {},     \* ids pushed with add_event in this tick
     removal |-> NoRemoval,  \* the last call of remove_pending in this tick
     ran |-> <<>>,         \* the systems whose update has run in this tick, in order
     staged |-> {},        \* ids add_pending was called for in this tick while not live pending
     stagers |-> [i \in EventIdSpace |-> {}],  \* the systems that made those calls
     unready |-> [s \in SystemType |-> {}],  \* EntityCreated events s handled in this tick with the mesh not ready
     finished |-> [s \in SystemType |-> {}],  \* events whose work s finished in this tick
     fatal |-> {},         \* <<id, s>>: remove_pending(id, s) panicked after add_pending(e, s)
     reallocated |-> {}]   \* entities init_normal_object ran for while they had a render object

hist_add_engine(h, id) == [h EXCEPT !.engine_now = @ \cup {id}]
\* system s handled the EntityCreated event id and found no loaded mesh under
\* the key of the entity's render component
hist_unready(h, store, mesh_label, id, s) ==
    IF store[mesh_label].present /\ store[mesh_label].mesh_type # None
    THEN h
    ELSE [h EXCEPT !.unready[s] = @ \cup {id}]
hist_fatal(h, id, s) == IF s \in h.adders[id] THEN [h EXCEPT !.fatal = @ \cup {<<id, s>>}] ELSE h
hist_reallocated(h, id) == [h EXCEPT !.reallocated = @ \cup {id}]
hist_finished(h, id, s) == [h EXCEPT !.finished[s] = @ \cup {id}]
hist_ran(h, s) == [h EXCEPT !.ran = Append(@, s)]
hist_add_event(h, id) == [h EXCEPT !.event_now = @ \cup {id}]
hist_add_pending(h, id, s) == [h EXCEPT !.adders[id] = @ \cup {s}, !.removers[id] = @ \ {s}]
\* add_pending(e, .) was called on `before`, which had e.id live pending or not
hist_staged(h, before, id) ==
    IF \E i \in 1..Len(before.pending_events) : before.pending_events[i].id = id
    THEN h
    ELSE [h EXCEPT !.staged = @ \cup {id}]
hist_stager(h, before, id, s) ==
    IF \E i \in 1..Len(before.pending_events) : before.pending_events[i].id = id
    THEN h
    ELSE [h EXCEPT !.stagers[id] = @ \cup {s}]
hist_remove_pending(h, id, s) == [h EXCEPT !.removers[id] = @ \cup {s}]
\* remove_pending(id, .) was called on `before`: was id in the live pending
\* collection, did the call panic, and did it leave the EventManager as it was
hist_removal(h, before, after, id, failed) ==
    [h EXCEPT !.removal = [called |-> TRUE,
                           live |-> \E i \in 1..Len(before.pending_events) :
                                        before.pending_events[i].id = id,
                           failed |-> failed,
                           kept |-> after = before]]
hist_deliver(h, events, s) ==
    [h EXCEPT !.delivered = [i \in EventIdSpace |-> IF HasId(events, i) THEN @[i] \cup {s} ELSE @[i]]]
hist_request(h, k) == [h EXCEPT !.requests[k] = @ + 1]
hist_load(h, k) == [h EXCEPT !.loads[k] = @ + 1]
hist_compile(h, k) == [h EXCEPT !.compiles[k] = @ + 1]
\* create_entity returned st.id: was it recycled, and were its four slots None
hist_create(h, recycled, st) ==
    LET components == st.world.components
    IN  [h EXCEPT !.handed_out =
            [recycled |-> recycled,
             blank |-> /\ Slot(components.renderables, st.id) = None
                       /\ Slot(components.positionable, st.id) = None
                       /\ ~Slot(components.physics, st.id).some
                       /\ Slot(components.highlightable, st.id) = None]]
hist_run(h, store, lock) ==
    [h EXCEPT !.ready = lock = "free" /\ \A k \in MeshKeys : store[k].is_loaded]
\* try_read() failed for system s with these events delivered to it
hist_blocked(h, events, s) ==
    [h EXCEPT !.blocked[s] = @ \cup {events[i].id : i \in {j \in 1..Len(events) :
                                        events[j].event_type.kind = "EntityCreated"}}]
hist_clear(h) ==
    [h EXCEPT !.engine_prev = h.engine_now,
              !.blocked = [s \in SystemType |-> {}],
              !.engine_now = {},
              !.event_now = {},
              !.removal = NoRemoval,
              !.ran = <<>>,
              !.staged = {},
              !.stagers = [i \in EventIdSpace |-> {}],
              !.finished = [s \in SystemType |-> {}],
              !.unready = [s \in SystemType |-> {}],
              !.due = {i \in EventIdSpace : h.adders[i] = SystemType},
              !.gone = {i \in EventIdSpace : h.adders[i] = SystemType /\ h.removers[i] = SystemType}]

\* ---------------------------------------------------------------- systems
\* what a system works on while it handles events
system_state(em, counter, w, ph, rn, h) ==
    [em |-> em, counter |-> counter, world |-> w, physics |-> ph, renderer |-> rn,
     h |-> h, panicked |-> FALSE]

\* add_pending unless the copy held is already pending for the system
\* (physics.rs:133-137, render_system.rs:216-218 and 264-266)
defer(st, event, system) ==
    IF is_pending_for(event, system)
    THEN st
    ELSE [st EXCEPT !.em = add_pending(st.em, event, system),
                    !.h = hist_stager(hist_staged(hist_add_pending(st.h, event.id, system),
                                                  st.em, event.id),
                                      st.em, event.id, system)]

\* remove_pending if the copy held is pending for the system
\* (physics.rs:114-119, render_system.rs:234-237)
release(st, event, system) ==
    IF ~is_pending_for(event, system)
    THEN st
    ELSE IF remove_pending_panics(st.em, event.id)
    THEN [st EXCEPT !.panicked = TRUE,
                    !.h = hist_fatal(hist_removal(st.h, st.em, st.em, event.id, TRUE),
                                     event.id, system)]
    ELSE LET em == remove_pending(st.em, event.id, system)
         IN  [st EXCEPT !.em = em,
                        !.h = hist_removal(hist_remove_pending(st.h, event.id, system),
                                           st.em, em, event.id, FALSE)]

Physics_new == [bodies |-> <<>>, colliders |-> <<>>]

\* bodies.insert: the handle of a body is its position in the set
insert_body(st, id) ==
    [st EXCEPT !.physics.bodies = Append(@, id),
               !.world.components.physics[id + 1].rigid_handle = Len(st.physics.bodies) + 1]

\* slice::chunks: runs of n elements, the last one shorter if n does not
\* divide the length
RECURSIVE chunks(_, _)
chunks(s, n) ==
    IF s = <<>>
    THEN <<>>
    ELSE IF Len(s) <= n
    THEN <<s>>
    ELSE <<SubSeq(s, 1, n)>> \o chunks(SubSeq(s, n + 1, Len(s)), n)

Point3_new(x, y, z) == <<x, y, z>>

\* divide_indices over the runs of exactly three: a rest of one or two indices is dropped
divide_indices_exact(ind) ==
    LET runs == SelectSeq(chunks(ind, 3), LAMBDA x : Len(x) = 3)
    IN  [panicked |-> FALSE,
         triples |-> [i \in 1..Len(runs) |-> Point3_new(runs[i][1], runs[i][2], runs[i][3])]]

\* divide_indices (physics.rs:236-245): the assert fails on a run that is not
\* of three; `as usize` widens a u32 and keeps its value
divide_indices(ind) ==
    LET runs == chunks(ind, 3)
        fails == \E i \in 1..Len(runs) : Len(runs[i]) # 3
    IN  [panicked |-> fails,
         triples |-> IF fails THEN <<>>
                     ELSE [i \in 1..Len(runs) |->
                              Point3_new(runs[i][1], runs[i][2], runs[i][3])]]

\* colliders.insert, and the handles written back (physics.rs:148-157)
insert_collider(st, id, rigid_body_handle, shape) ==
    [st EXCEPT !.physics.colliders =
                  Append(@, [body |-> rigid_body_handle, entity |-> id, shape |-> shape]),
               !.world.components.physics[id + 1].rigid_handle = rigid_body_handle,
               !.world.components.physics[id + 1].collider_handle = Len(st.physics.colliders) + 1]

\* Physics::handle_world_events, the EntityCreated arm; store is the map read
\* under the guard try_read() returned
physics_entity_created(st, event, store) ==
    LET id == event.event_type.entity
        components == st.world.components
    IN  IF ~Slot(components.physics, id).some \/ Slot(components.positionable, id) = None
        THEN st
        ELSE LET rigid_body_handle == Len(st.physics.bodies) + 1
                 st1 == insert_body(st, id)
                 mesh_label == Slot(components.renderables, id)
             IN  IF mesh_label = None
                 THEN [insert_collider(st1, id, rigid_body_handle, "Ball") EXCEPT
                          !.h = hist_finished(@, event.id, PhysicsSystem)]
                 ELSE IF ~store[mesh_label].present
                 THEN [st1 EXCEPT !.panicked = TRUE,
                                  !.h = hist_unready(@, store, mesh_label, event.id, PhysicsSystem)]
                 ELSE IF store[mesh_label].mesh_type # None
                 THEN LET st2 == release(st1, event, PhysicsSystem)
                          trimesh == divide_indices(store[mesh_label].indices)
                      IN  IF st2.panicked THEN st2
                          ELSE IF trimesh.panicked THEN [st2 EXCEPT !.panicked = TRUE]
                          ELSE [insert_collider(st2, id, rigid_body_handle, trimesh.triples)
                                   EXCEPT !.h = hist_finished(@, event.id, PhysicsSystem)]
                 ELSE defer([st1 EXCEPT !.h = hist_unready(@, store, mesh_label, event.id,
                                                            PhysicsSystem)],
                            event, PhysicsSystem)

\* let mut min = 100000.0
RayMinStart == 100000

\* the inner loop of the CastRay arm (physics.rs:179-195): the physics
\* components in index order, for one interference
RECURSIVE ray_components(_, _, _, _)
ray_components(acc, hit, physics_components, i) ==
    IF i > Len(physics_components)
    THEN acc
    ELSE LET component == physics_components[i]
             better == /\ component.some
                       /\ component.collider_handle # -1
                       /\ component.collider_handle = hit.collider
                       /\ hit.toi < acc.min
         IN  ray_components(IF better THEN [entity |-> i - 1, min |-> hit.toi] ELSE acc,
                            hit, physics_components, i + 1)

\* the outer loop (physics.rs:178-196): the interferences in iterator order
RECURSIVE ray_interferences(_, _, _, _)
ray_interferences(acc, interferences, physics_components, j) ==
    IF j > Len(interferences)
    THEN acc
    ELSE ray_interferences(ray_components(acc, interferences[j], physics_components, 1),
                           interferences, physics_components, j + 1)

\* the entity the RayCasted event reports
cast_ray(interferences, physics_components) ==
    ray_interferences([entity |-> NoEntity, min |-> RayMinStart],
                      interferences, physics_components, 1).entity

\* interferences_with_ray(&self.colliders, &data.ray, ..): the colliders of the
\* ray that are in the collider set
interferences_with_ray(colliders, ray) ==
    SelectSeq(ray, LAMBDA hit : hit.collider <= Len(colliders))

\* Physics::handle_world_events, the CastRay arm
physics_cast_ray(st, event) ==
    LET interferences == interferences_with_ray(st.physics.colliders, event.event_type.ray)
        entity == cast_ray(interferences, st.world.components.physics)
    IN  [st EXCEPT !.em = add_engine_event(st.em, Event_new(st.counter, "RayCasted", entity)),
                   !.counter = st.counter + 1,
                   !.h = hist_add_engine(st.h, st.counter)]

physics_handle(st, event, store) ==
    IF event.event_type.kind = "EntityCreated"
    THEN physics_entity_created(st, event, store)
    ELSE IF event.event_type.kind = "CastRay"
    THEN physics_cast_ray(st, event)
    ELSE st

RECURSIVE physics_walk(_, _, _, _)
physics_walk(st, events, i, store) ==
    IF i > Len(events) \/ st.panicked
    THEN st
    ELSE physics_walk(physics_handle(st, events[i], store), events, i + 1, store)

\* Physics::handle_physics_events unwraps the rigid_handle of every entity that
\* has a physics and a transform component
handle_physics_events_panics(w) ==
    \E i \in 1..Len(w.entities) :
        LET id == w.entities[i]
        IN  /\ Slot(w.components.physics, id).some
            /\ Slot(w.components.positionable, id) # None
            /\ Slot(w.components.physics, id).rigid_handle = -1

Renderer_new == [normal_objects |-> {}]

\* Renderer::allocate_entity
allocate_entity(st, event, id, mesh) ==
    IF mesh = None
    THEN defer(st, event, RenderSystem)
    ELSE IF id \in st.renderer.normal_objects
    THEN [st EXCEPT !.panicked = TRUE, !.h = hist_reallocated(@, id)]
    ELSE release([st EXCEPT !.renderer.normal_objects = @ \cup {id},
                            !.h = hist_finished(@, event.id, RenderSystem)],
                 event, RenderSystem)

\* Renderer::handle_entity_creation; readable is the outcome of try_read()
handle_entity_creation(st, event, readable, store) ==
    LET id == event.event_type.entity
        mesh_label == Slot(st.world.components.renderables, id)
    IN  IF id \in st.renderer.normal_objects /\ is_pending_for(event, RenderSystem)
        THEN st
        ELSE IF mesh_label = None
        THEN st
        ELSE IF ~readable
        THEN [defer(st, event, RenderSystem) EXCEPT
                 !.h = hist_blocked(@, <<event>>, RenderSystem)]
        ELSE IF store[mesh_label].present
        THEN allocate_entity([st EXCEPT !.h = hist_unready(@, store, mesh_label, event.id,
                                                            RenderSystem)],
                             event, id, store[mesh_label].mesh_type)
        ELSE [st EXCEPT !.h = hist_unready(@, store, mesh_label, event.id, RenderSystem)]

\* Renderer::free_objects
free_objects(st, id, mesh) ==
    IF mesh = None
    THEN st
    ELSE IF id \in st.renderer.normal_objects
    THEN [st EXCEPT !.renderer.normal_objects = @ \ {id}]
    ELSE [st EXCEPT !.panicked = TRUE]

\* Renderer::remove_entity
remove_entity(st, event, readable, store) ==
    LET id == event.event_type.entity
        mesh_label == Slot(st.world.components.renderables, id)
    IN  IF mesh_label = None
        THEN st
        ELSE IF ~readable
        THEN [st EXCEPT !.em = add_pending(st.em, event, RenderSystem),
                        !.h = hist_stager(hist_staged(hist_add_pending(st.h, event.id, RenderSystem),
                                                      st.em, event.id),
                                          st.em, event.id, RenderSystem)]
        ELSE IF store[mesh_label].present
        THEN LET freed == free_objects(st, id, store[mesh_label].mesh_type)
             IN  IF freed.panicked \/ store[mesh_label].mesh_type = None
                 THEN freed
                 ELSE [freed EXCEPT !.h = hist_finished(@, event.id, RenderSystem)]
        ELSE st

\* one turn of the loop of Renderer::handle_system_events
render_handle(st, event, readable, store) ==
    IF event.event_type.kind = "EntityCreated"
    THEN handle_entity_creation(st, event, readable, store)
    ELSE IF event.event_type.kind = "EntityRemoved"
    THEN remove_entity(st, event, readable, store)
    ELSE st

\* ------------------------------------------------------------------
\* The bus under its callers' protocol.  A system takes the snapshot
\* get_engine_events() and walks it; for each event it either cannot
\* finish (it defers with add_pending unless the copy it holds is already
\* pending for it) or finishes (it calls remove_pending if the copy it
\* holds is pending for it); Physics answers a CastRay with a RayCasted
\* event.  Whether an event can be finished is the state of the resource
\* store, left open here.
\* ------------------------------------------------------------------
\* the state after construction (main.rs:45-50, 126-134)
Constructed ==
    /\ EVENT_IDS = 0
    /\ event_manager = EventManager_new
    /\ ENTITY_ID = 0
    /\ world = World_new
    /\ mesh_data = Resources_new
    /\ shaders = Shaders_new
    /\ rw_lock = "free"
    /\ resource_queue = <<>>
    /\ queue_mutex = "free"
    /\ loader = [pc |-> "start", item |-> None]
    /\ physics = Physics_new
    /\ renderer = Renderer_new
    /\ pc = "input"
    /\ snapshot = <<>>
    /\ idx = 1
    /\ panicked = FALSE
    /\ hist = hist_new

BusInit == Constructed

\* what the bus protocol leaves alone
notBus == <<worldVars, resourceVars, systemVars, snapshot, idx>>

\* the CastRay events of a list, each of which Physics answers with an event
CastRays(events) == Cardinality({i \in 1..Len(events) : events[i].event_type.kind = "CastRay"})

\* VecDeque::push_front and push_back
push_front(deque, x) == <<x>> \o deque
push_back(deque, x) == Append(deque, x)

\* the systems registered with push_back
systems_pushed_back == push_back(push_back(<<>>, RenderSystem), PhysicsSystem)

\* the systems in the order the loop iterates them (main.rs:129-130)
systems == push_front(push_front(<<>>, RenderSystem), PhysicsSystem)

\* where the tick is while a system updates, and where it goes from there:
\* to the next system of the deque, or to clear() after the last
Position(system) == IF system = PhysicsSystem THEN "physics" ELSE "render"
after_update(system) ==
    LET i == CHOOSE j \in 1..Len(systems) : systems[j] = system
    IN  IF i < Len(systems) THEN Position(systems[i + 1]) ELSE "clear"

\* the system that runs at this position of the tick (main.rs:129-130, 145-148)
SystemAt(p) == IF p = "physics" THEN PhysicsSystem ELSE RenderSystem

\* what the bus and the counters are while a system walks its snapshot
walk_state(em, counter, h) == [em |-> em, counter |-> counter, h |-> h, panicked |-> FALSE]

\* one event of the snapshot
bus_handle(st, event, outcome, system) ==
    IF system = PhysicsSystem /\ event.event_type.kind = "CastRay"
    THEN [st EXCEPT !.em = add_engine_event(st.em, Event_new(st.counter, "RayCasted", NoEntity)),
                    !.counter = st.counter + 1,
                    !.h = hist_add_engine(st.h, st.counter)]
    ELSE IF outcome = "defer"
    THEN defer(st, event, system)
    ELSE release(st, event, system)

\* every way the walk of events[i..] can go from the states sts
RECURSIVE bus_walk(_, _, _, _)
bus_walk(sts, events, i, system) ==
    IF i > Len(events)
    THEN sts
    ELSE bus_walk({st \in sts : st.panicked}
                  \cup {bus_handle(st, events[i], outcome, system) :
                            st \in {t \in sts : ~t.panicked}, outcome \in {"defer", "finish"}},
                  events, i + 1, system)

\* a producer outside the systems: World::create_entity (add_event) or
\* Engine::update (add_engine_event), both before the systems run
BusProduce ==
    /\ pc = "input" /\ ~panicked
    /\ EVENT_IDS < MaxBusEvents
    /\ \/ /\ event_manager' = add_event(event_manager, Event_new(EVENT_IDS, "EntityCreated", NoEntity))
          /\ hist' = hist_add_event(hist, EVENT_IDS)
       \/ /\ event_manager' = add_engine_event(event_manager, Event_new(EVENT_IDS, "CastRay", NoEntity))
          /\ hist' = hist_add_engine(hist, EVENT_IDS)
    /\ EVENT_IDS' = EVENT_IDS + 1
    /\ UNCHANGED <<pc, panicked, notBus>>

BusRunSystems ==
    /\ pc = "input" /\ ~panicked
    /\ pc' = Position(systems[1])
    /\ UNCHANGED <<busVars, panicked, hist, notBus>>

\* System::update of the system whose turn it is
BusUpdate ==
    /\ pc \in {"physics", "render"} /\ ~panicked
    /\ LET events == get_engine_events(event_manager)
           system == SystemAt(pc)
       IN  /\ system = PhysicsSystem => EVENT_IDS + CastRays(events) <= MaxBusEvents
           /\ \E st \in bus_walk({walk_state(event_manager, EVENT_IDS, hist)}, events, 1, system) :
                /\ event_manager' = st.em
                /\ EVENT_IDS' = st.counter
                /\ hist' = hist_ran(st.h, system)
                /\ panicked' = st.panicked
    /\ pc' = after_update(SystemAt(pc))
    /\ UNCHANGED notBus

BusClear ==
    /\ pc = "clear" /\ ~panicked
    /\ event_manager' = clear(event_manager)
    /\ hist' = hist_clear(hist)
    /\ pc' = "input"
    /\ UNCHANGED <<EVENT_IDS, panicked, notBus>>

BusNext == BusProduce \/ BusRunSystems \/ BusUpdate \/ BusClear

SpecBus == BusInit /\ [][BusNext]_vars

\* ------------------------------------------------------------------
\* The program: the main loop of main.rs:136-162 and the resource
\* loading thread of world.rs:256-273.
\* ------------------------------------------------------------------
Init == Constructed

Running == ~panicked

\* World::add_resource for a mesh: lock the queue, push, notify_one
\* (world.rs:236-253).  Blocked while the loader holds the queue.
CanRequest == queue_mutex # "loader"
request_resource(key) ==
    /\ resource_queue' = IF queue_mutex = "poisoned" THEN resource_queue
                         ELSE Append(resource_queue, key)
    /\ loader' = IF queue_mutex = "free" /\ loader.pc = "sleeping"
                 THEN [loader EXCEPT !.pc = "woken"] ELSE loader
    /\ UNCHANGED <<mesh_data, shaders, rw_lock, queue_mutex>>

\* event ids the bound still leaves, one kept for the answer to each CastRay
IdsLeft ==
    MaxEvents - EVENT_IDS
        - CastRays(event_manager.engine_events) - CastRays(event_manager.engine_events1)

\* Editor::create_entity (editor.rs:139-180)
EditorCreateEntity ==
    /\ pc = "input" /\ Running /\ CanRequest
    /\ IdsLeft >= 1
    /\ world.deleted_entities # <<>> \/ ENTITY_ID < MaxEntities
    /\ \E key \in MeshKeys :
         LET st == create_entity(program(world, ENTITY_ID, event_manager, EVENT_IDS))
         IN  /\ request_resource(key)
             /\ world' = IF queue_mutex = "poisoned" THEN st.world
                         ELSE editor_components(st.world, st.id, key)
             /\ ENTITY_ID' = st.ENTITY_ID
             /\ event_manager' = st.event_manager
             /\ EVENT_IDS' = st.EVENT_IDS
             /\ panicked' = (queue_mutex = "poisoned")
             /\ hist' = hist_add_event(hist_create(hist, world.deleted_entities # <<>>, st), EVENT_IDS)
    /\ UNCHANGED <<systemVars, pc, snapshot, idx>>

\* World::create_loaded_entity (world.rs:401-449)
LoadedCreateEntity ==
    /\ pc = "input" /\ Running
    /\ IdsLeft >= 1
    /\ world.deleted_entities # <<>> \/ ENTITY_ID < MaxEntities
    /\ \E mesh_label \in MeshKeys \cup {None}, has_transform \in BOOLEAN :
         LET st == create_entity(program(world, ENTITY_ID, event_manager, EVENT_IDS))
             fails == mesh_label # None /\ queue_mutex = "poisoned"
         IN  /\ mesh_label # None => CanRequest
             /\ IF mesh_label # None
                THEN request_resource(mesh_label)
                ELSE UNCHANGED resourceVars
             /\ world' = IF fails THEN st.world
                         ELSE loaded_components(st.world, st.id, mesh_label, has_transform)
             /\ ENTITY_ID' = st.ENTITY_ID
             /\ event_manager' = st.event_manager
             /\ EVENT_IDS' = st.EVENT_IDS
             /\ panicked' = fails
             /\ hist' = hist_add_event(hist_create(hist, world.deleted_entities # <<>>, st), EVENT_IDS)
    /\ UNCHANGED <<systemVars, pc, snapshot, idx>>

\* removal of an alive entity
RemoveEntity ==
    /\ pc = "input" /\ Running
    /\ IdsLeft >= 1
    /\ \E i \in 1..Len(world.entities) :
         LET id == world.entities[i]
             st == remove_entity_from_world(program(world, ENTITY_ID, event_manager, EVENT_IDS), id)
         IN  /\ ~Contains(world.deleted_entities, id)
             /\ world' = st.world
             /\ event_manager' = st.event_manager
             /\ EVENT_IDS' = st.EVENT_IDS
             /\ hist' = hist_add_event(hist, EVENT_IDS)
    /\ UNCHANGED <<ENTITY_ID, resourceVars, systemVars, mainVars>>

\* the rays of a click: into the void, or at one collider
ClickRays == {<<>>} \cup {<<[collider |-> c, toi |-> 1]>> : c \in 1..MaxBodies}

\* Engine::update: a click in the editor casts a ray (core.rs:216-238)
CastRay ==
    /\ pc = "input" /\ Running
    /\ IdsLeft >= 2
    /\ \E ray \in ClickRays :
         event_manager' = add_engine_event(event_manager, CastRay_new(EVENT_IDS, ray))
    /\ EVENT_IDS' = EVENT_IDS + 1
    /\ hist' = hist_add_engine(hist, EVENT_IDS)
    /\ UNCHANGED <<worldVars, resourceVars, systemVars, mainVars>>

\* the for loop over the systems begins (main.rs:145)
RunSystems ==
    /\ pc = "input" /\ Running
    /\ pc' = Position(systems[1])
    /\ hist' = hist_run(hist, mesh_data, rw_lock)
    /\ UNCHANGED <<busVars, worldVars, resourceVars, systemVars, snapshot, idx, panicked>>

\* Physics::update (physics.rs:213-233).  handle_world_events holds the read
\* guard from its first line to its last, so the loader cannot interleave.
PhysicsUpdate ==
    /\ pc = "physics" /\ Running
    /\ LET events == get_engine_events(event_manager)
           before == system_state(event_manager, EVENT_IDS, world, physics, renderer,
                                  hist_deliver(hist, events, PhysicsSystem))
           after == IF rw_lock = "free"
                    THEN physics_walk(before, events, 1, mesh_data)
                    ELSE [before EXCEPT !.h = hist_blocked(hist, events, PhysicsSystem)]
       IN  /\ event_manager' = after.em
           /\ EVENT_IDS' = after.counter
           /\ world' = after.world
           /\ physics' = after.physics
           /\ hist' = hist_ran(after.h, PhysicsSystem)
           /\ panicked' = (after.panicked \/ handle_physics_events_panics(after.world))
           /\ Len(after.physics.bodies) <= MaxBodies
    /\ pc' = after_update(PhysicsSystem)
    /\ UNCHANGED <<ENTITY_ID, resourceVars, renderer, snapshot, idx>>

\* Renderer::handle_system_events takes its copy of the events
\* (render_system.rs:313-316)
RenderBegin ==
    /\ pc = "render" /\ Running
    /\ snapshot' = get_engine_events(event_manager)
    /\ idx' = 1
    /\ hist' = hist_deliver(hist, get_engine_events(event_manager), RenderSystem)
    /\ pc' = "render_events"
    /\ UNCHANGED <<busVars, worldVars, resourceVars, systemVars, panicked>>

\* one turn of its loop; each handler calls try_read() for itself
RenderEvent ==
    /\ pc = "render_events" /\ Running
    /\ idx <= Len(snapshot)
    /\ LET before == system_state(event_manager, EVENT_IDS, world, physics, renderer, hist)
           after == render_handle(before, snapshot[idx], rw_lock = "free", mesh_data)
       IN  /\ event_manager' = after.em
           /\ renderer' = after.renderer
           /\ hist' = after.h
           /\ panicked' = after.panicked
    /\ idx' = idx + 1
    /\ UNCHANGED <<EVENT_IDS, worldVars, resourceVars, physics, pc, snapshot>>

RenderEnd ==
    /\ pc = "render_events" /\ Running
    /\ idx > Len(snapshot)
    /\ snapshot' = <<>>
    /\ idx' = 1
    /\ pc' = after_update(RenderSystem)
    /\ hist' = hist_ran(hist, RenderSystem)
    /\ UNCHANGED <<busVars, worldVars, resourceVars, systemVars, panicked>>

\* event_manager.clear() at the end of the tick (main.rs:152)
Clear ==
    /\ pc = "clear" /\ Running
    /\ event_manager' = clear(event_manager)
    /\ hist' = hist_clear(hist)
    /\ pc' = "input"
    /\ UNCHANGED <<EVENT_IDS, worldVars, resourceVars, systemVars, snapshot, idx, panicked>>

\* ---- the resource loading thread (world.rs:260-271)
notLoader == <<busVars, worldVars, shaders, systemVars, mainVars>>

\* mutex.lock() and cond.wait(lock), which gives the queue back
LoaderWait ==
    /\ loader.pc = "start" /\ queue_mutex = "free"
    /\ loader' = [loader EXCEPT !.pc = "sleeping"]
    /\ UNCHANGED <<mesh_data, rw_lock, resource_queue, queue_mutex, hist, notLoader>>

\* Condvar::wait may return without a notification
LoaderSpuriousWakeup ==
    /\ loader.pc = "sleeping"
    /\ loader' = [loader EXCEPT !.pc = "woken"]
    /\ UNCHANGED <<mesh_data, rw_lock, resource_queue, queue_mutex, hist, notLoader>>

\* wait() returns with the queue locked; then resources.write()
LoaderLock ==
    /\ loader.pc = "woken" /\ queue_mutex = "free" /\ rw_lock = "free"
    /\ queue_mutex' = "loader"
    /\ rw_lock' = "write"
    /\ loader' = [loader EXCEPT !.pc = "pop"]
    /\ UNCHANGED <<mesh_data, resource_queue, hist, notLoader>>

\* pop_front and Resources::add_resource up to load_obj
LoaderPop ==
    /\ loader.pc = "pop" /\ resource_queue # <<>>
    /\ LET key == Head(resource_queue)
           call == add_resource(mesh_data, key)
       IN  /\ resource_queue' = Tail(resource_queue)
           /\ mesh_data' = call.mesh_data
           /\ hist' = IF call.next = "load" THEN hist_load(hist_request(hist, key), key)
                      ELSE hist_request(hist, key)
           /\ loader' = IF call.next = "return" THEN loader
                        ELSE IF call.next = "load" THEN [pc |-> "loading", item |-> key]
                        ELSE [loader EXCEPT !.pc = "dead"]
           /\ rw_lock' = IF call.next = "panic" THEN "poisoned" ELSE rw_lock
           /\ queue_mutex' = IF call.next = "panic" THEN "poisoned" ELSE queue_mutex
    /\ UNCHANGED notLoader

\* load_obj returned the mesh (world.rs:134-139)
LoaderLoaded ==
    /\ loader.pc = "loading"
    /\ mesh_data' = [mesh_data EXCEPT ![loader.item] = Mesh_loaded(@)]
    /\ loader' = [pc |-> "pop", item |-> None]
    /\ UNCHANGED <<rw_lock, resource_queue, queue_mutex, hist, notLoader>>

\* load_obj returned an error: unwrap() panics with both guards held
LoaderLoadFails ==
    /\ loader.pc = "loading"
    /\ loader' = [loader EXCEPT !.pc = "dead"]
    /\ rw_lock' = "poisoned"
    /\ queue_mutex' = "poisoned"
    /\ UNCHANGED <<mesh_data, resource_queue, hist, notLoader>>

\* the queue is empty: both guards drop at the end of the loop body
LoaderUnlock ==
    /\ loader.pc = "pop" /\ resource_queue = <<>>
    /\ rw_lock' = "free"
    /\ queue_mutex' = "free"
    /\ loader' = [loader EXCEPT !.pc = "start"]
    /\ UNCHANGED <<mesh_data, resource_queue, hist, notLoader>>

Loader ==
    \/ LoaderWait \/ LoaderSpuriousWakeup \/ LoaderLock \/ LoaderPop
    \/ LoaderLoaded \/ LoaderLoadFails \/ LoaderUnlock

Main ==
    \/ EditorCreateEntity \/ LoadedCreateEntity \/ RemoveEntity \/ CastRay \/ RunSystems
    \/ PhysicsUpdate \/ RenderBegin \/ RenderEvent \/ RenderEnd \/ Clear

Next == Main \/ Loader

Spec == Init /\ [][Next]_vars

\* ------------------------------------------------------------------
\* The scenario: the editor has created ScenarioEntities entities with one
\* mesh key that is not loaded, in the input phase of the first tick;
\* nothing is created or removed afterwards.
\* ------------------------------------------------------------------
ScenarioKey == CHOOSE k \in MeshKeys : TRUE

RECURSIVE scenario_created(_)
scenario_created(n) ==
    IF n = 0
    THEN program(World_new, 0, EventManager_new, 0)
    ELSE LET st == create_entity(scenario_created(n - 1))
         IN  [st EXCEPT !.world = editor_components(st.world, st.id, ScenarioKey)]

ScenarioInit ==
    LET st == scenario_created(ScenarioEntities)
    IN  /\ EVENT_IDS = st.EVENT_IDS
        /\ event_manager = st.event_manager
        /\ ENTITY_ID = st.ENTITY_ID
        /\ world = st.world
        /\ mesh_data = Resources_new
        /\ shaders = Shaders_new
        /\ rw_lock = "free"
        /\ resource_queue = [i \in 1..ScenarioEntities |-> ScenarioKey]
        /\ queue_mutex = "free"
        \* notify_one found the loader waiting, or not yet
        /\ loader \in {[pc |-> p, item |-> None] : p \in {"woken", "start"}}
        /\ physics = Physics_new
        /\ renderer = Renderer_new
        /\ pc = "input"
        /\ snapshot = <<>>
        /\ idx = 1
        /\ panicked = FALSE
        /\ hist = hist_new

ScenarioNext ==
    \/ RunSystems \/ PhysicsUpdate \/ RenderBegin \/ RenderEvent \/ RenderEnd \/ Clear
    \/ Loader

SpecScenario == ScenarioInit /\ [][ScenarioNext]_vars

\* ------------------------------------------------------------------
\* The program under fair scheduling, with the entities of a loaded world
\* (World::create_loaded_entity) only.  The main thread keeps taking its
\* steps; the loader thread takes every step it can take, but a wait on the
\* condition variable ends only by a notification: a spurious wakeup may
\* happen and is never owed.
\* ------------------------------------------------------------------
LoadMain ==
    \/ LoadedCreateEntity \/ RunSystems
    \/ PhysicsUpdate \/ RenderBegin \/ RenderEvent \/ RenderEnd \/ Clear

LoaderSteps ==
    \/ LoaderWait \/ LoaderLock \/ LoaderPop \/ LoaderLoaded \/ LoaderUnlock

LoadNext == LoadMain \/ Loader

SpecLoad ==
    /\ Init /\ [][LoadNext]_vars
    /\ WF_vars(LoadMain)
    /\ WF_vars(LoaderSteps)

\* ------------------------------------------------------------------
\* The ray cast: Physics::update with one CastRay event on the bus, for
\* every ray over a set of MaxColliders colliders and every way RayEntities
\* entities own some of them.  No two interferences are of the same collider
\* and no two physics components have the same collider handle.
\* ------------------------------------------------------------------
RECURSIVE Rays(_)
Rays(n) ==
    IF n = 0
    THEN {<<>>}
    ELSE Rays(n - 1) \cup
         {Append(ray, [collider |-> c, toi |-> t]) :
             ray \in {r \in Rays(n - 1) : Len(r) = n - 1},
             c \in 1..MaxColliders, t \in 1..MaxToi}

DistinctColliders(ray) ==
    \A i, j \in 1..Len(ray) : i # j => ray[i].collider # ray[j].collider

\* the collider handle of each entity, 0 for an entity without a physics component
Ownerships ==
    {f \in [1..RayEntities -> 0..MaxColliders] :
        \A i, j \in 1..RayEntities : (i # j /\ f[i] # 0) => f[i] # f[j]}

ray_world(f) ==
    [entities |-> [i \in 1..RayEntities |-> i - 1],
     deleted_entities |-> <<>>,
     components |->
        [renderables |-> [i \in 1..RayEntities |-> None],
         positionable |-> [i \in 1..RayEntities |-> "Some"],
         physics |-> [i \in 1..RayEntities |->
                        IF f[i] = 0 THEN NoPhysics
                        ELSE [some |-> TRUE, rigid_handle |-> i, collider_handle |-> f[i]]],
         highlightable |-> [i \in 1..RayEntities |-> None]]]

RayInit ==
    \E ray \in {r \in Rays(MaxColliders) : DistinctColliders(r)}, f \in Ownerships :
        /\ EVENT_IDS = 1
        /\ event_manager = add_event(EventManager_new, CastRay_new(0, ray))
        /\ ENTITY_ID = RayEntities
        /\ world = ray_world(f)
        /\ mesh_data = Resources_new
        /\ shaders = Shaders_new
        /\ rw_lock = "free"
        /\ resource_queue = <<>>
        /\ queue_mutex = "free"
        /\ loader = [pc |-> "sleeping", item |-> None]
        /\ physics = [bodies |-> [i \in 1..RayEntities |-> i - 1],
                      colliders |-> [c \in 1..MaxColliders |->
                                        [body |-> 1, entity |-> 0, shape |-> "Ball"]]]
        /\ renderer = Renderer_new
        /\ pc = "physics"
        /\ snapshot = <<>>
        /\ idx = 1
        /\ panicked = FALSE
        /\ hist = hist_add_event(hist_new, 0)

RayNext == PhysicsUpdate

SpecRay == RayInit /\ [][RayNext]_vars

\* ------------------------------------------------------------------
\* The triangle mesh of a collider: Physics::update with the EntityCreated
\* event of one entity whose mesh is loaded, for every index list of up to
\* MaxIndices indices.
\* ------------------------------------------------------------------
RECURSIVE IndexLists(_)
IndexLists(n) ==
    IF n = 0
    THEN {<<>>}
    ELSE IndexLists(n - 1) \cup
         {Append(ind, x) : ind \in {l \in IndexLists(n - 1) : Len(l) = n - 1},
                           x \in 0..MaxIndex}

IndicesInit ==
    \E ind \in IndexLists(MaxIndices) :
        LET st == create_entity(program(World_new, 0, EventManager_new, 0))
        IN  /\ EVENT_IDS = st.EVENT_IDS
            /\ event_manager = st.event_manager
            /\ ENTITY_ID = st.ENTITY_ID
            /\ world = editor_components(st.world, st.id, ScenarioKey)
            /\ mesh_data = [Resources_new EXCEPT
                               ![ScenarioKey] = [Mesh_loaded(Mesh_new) EXCEPT !.indices = ind]]
            /\ shaders = Shaders_new
            /\ rw_lock = "free"
            /\ resource_queue = <<>>
            /\ queue_mutex = "free"
            /\ loader = [pc |-> "sleeping", item |-> None]
            /\ physics = Physics_new
            /\ renderer = Renderer_new
            /\ pc = "physics"
            /\ snapshot = <<>>
            /\ idx = 1
            /\ panicked = FALSE
            /\ hist = hist_add_event(hist_new, 0)

IndicesNext == PhysicsUpdate

SpecIndices == IndicesInit /\ [][IndicesNext]_vars

\* ------------------------------------------------------------------
\* The program with the entities of the editor only: every entity has a
\* render, a transform and a physics component, none is removed, and so each
\* entity id has one EntityCreated event.
\* ------------------------------------------------------------------
EditorMain ==
    \/ EditorCreateEntity \/ RunSystems
    \/ PhysicsUpdate \/ RenderBegin \/ RenderEvent \/ RenderEnd \/ Clear

EditorNext == EditorMain \/ Loader

SpecEditor == Init /\ [][EditorNext]_vars

\* ------------------------------------------------------------------
\* The resource store taken alone: Resources::add_resource over every store
\* of mesh entries and every queue of requests, and World::add_resource for
\* the shaders.  The loader has been notified; the main thread registers
\* shaders while the store is not write-locked.
\* ------------------------------------------------------------------
Stores == [MeshKeys -> {NoMesh, Mesh_new, Mesh_loaded(Mesh_new)}]

RECURSIVE Requests(_)
Requests(n) ==
    IF n = 0
    THEN {<<>>}
    ELSE Requests(n - 1) \cup
         {Append(q, k) : q \in {r \in Requests(n - 1) : Len(r) = n - 1}, k \in MeshKeys}

\* World::add_resource(AssetSource::Shader(..)) on the main thread:
\* resources.write() waits for the loader's guard and panics on a poisoned lock
AddShader ==
    /\ pc = "input" /\ Running
    /\ rw_lock # "write"
    /\ \E name \in ShaderKeys, shader \in {None, Compiled} :
          /\ hist.compiles[name] < MaxCompiles
          /\ IF rw_lock = "poisoned"
             THEN /\ panicked' = TRUE
                  /\ UNCHANGED <<shaders, rw_lock, hist>>
             ELSE LET call == add_shader(shaders, name, shader)
                  IN  /\ shaders' = call.shaders
                      /\ panicked' = call.panics
                      /\ rw_lock' = IF call.panics THEN "poisoned" ELSE rw_lock
                      /\ hist' = hist_compile(hist, name)
    /\ UNCHANGED <<busVars, worldVars, mesh_data, resource_queue, queue_mutex, loader,
                   systemVars, pc, snapshot, idx>>

ResourcesInit ==
    /\ EVENT_IDS = 0
    /\ event_manager = EventManager_new
    /\ ENTITY_ID = 0
    /\ world = World_new
    /\ mesh_data \in Stores
    /\ shaders = Shaders_new
    /\ rw_lock = "free"
    /\ resource_queue \in Requests(MaxRequests)
    /\ queue_mutex = "free"
    /\ loader = [pc |-> "woken", item |-> None]
    /\ physics = Physics_new
    /\ renderer = Renderer_new
    /\ pc = "input"
    /\ snapshot = <<>>
    /\ idx = 1
    /\ panicked = FALSE
    /\ hist = hist_new

ResourcesNext ==
    \/ AddShader
    \/ LoaderLock \/ LoaderPop \/ LoaderLoaded \/ LoaderLoadFails \/ LoaderUnlock \/ LoaderWait

SpecResources == ResourcesInit /\ [][ResourcesNext]_vars

\* ------------------------------------------------------------------
\* Physics deferring: the handlers over a store whose entry for the mesh
\* key is there and not loaded yet, the case the EntityCreated arm of
\* Physics::handle_world_events calls add_pending in (physics.rs:106-141).
\* One entity of the editor; load_obj returns at some tick or other.
\* ------------------------------------------------------------------
DeferInit ==
    LET st == scenario_created(1)
    IN  /\ EVENT_IDS = st.EVENT_IDS
        /\ event_manager = st.event_manager
        /\ ENTITY_ID = st.ENTITY_ID
        /\ world = st.world
        /\ mesh_data = [Resources_new EXCEPT ![ScenarioKey] = Mesh_new]
        /\ shaders = Shaders_new
        /\ rw_lock = "free"
        /\ resource_queue = <<>>
        /\ queue_mutex = "free"
        /\ loader = [pc |-> "loading", item |-> ScenarioKey]
        /\ physics = Physics_new
        /\ renderer = Renderer_new
        /\ pc = "input"
        /\ snapshot = <<>>
        /\ idx = 1
        /\ panicked = FALSE
        /\ hist = hist_add_event(hist_new, 0)

DeferNext ==
    \/ RunSystems \/ PhysicsUpdate \/ RenderBegin \/ RenderEvent \/ RenderEnd \/ Clear
    \/ LoaderLoaded \/ LoaderUnlock \/ LoaderWait

SpecDefer == DeferInit /\ [][DeferNext]_vars

\* ------------------------------------------------------------ properties
\* a system is about to call get_engine_events()
AboutToRead == pc \in {"physics", "render"} /\ ~panicked
\* the list that call returns
Returned == get_engine_events(event_manager)
NoDuplicateIds(s) == \A i, j \in 1..Len(s) : i # j => s[i].id # s[j].id

\* C1: an event both systems have called add_pending for is returned by every
\* get_engine_events() of the later ticks until both have called remove_pending,
\* and by none after the tick in which the second of them did.
C1_DeliveredUntilResolved ==
    \A id \in EventIdSpace :
        /\ (AboutToRead /\ id \in hist.due /\ hist.removers[id] # SystemType)
               => HasId(Returned, id)
        /\ (AboutToRead /\ id \in hist.gone) => ~HasId(Returned, id)

\* C2: an event pushed with add_engine_event in this tick is in no list
\* get_engine_events() returns in this tick, and one pushed in the tick before
\* is in every list returned in this tick.
C2_NoSameCycleDelivery ==
    AboutToRead =>
        /\ Ids(Returned) \cap hist.engine_now = {}
        /\ hist.engine_prev \subseteq Ids(Returned)

\* C2 witness: a system reads while one event was pushed with add_engine_event
\* earlier in this tick and another in the tick before
C2_Witness ==
    /\ pc = "render" /\ ~panicked
    /\ hist.engine_now # {}
    /\ hist.engine_prev # {}

\* C4: the list a system iterates holds no two events with the same id, and
\* the pending collection never holds two entries with the same id.
C4_NoDuplicateDelivery ==
    /\ AboutToRead => NoDuplicateIds(Returned)
    /\ NoDuplicateIds(event_manager.pending_events)

\* the events clear() is about to discard for good: those of the buffer being
\* read that neither the pending collection nor the staging list retains
Discarded ==
    LET current == IF event_manager.which_buff THEN event_manager.engine_events
                   ELSE event_manager.engine_events1
    IN  {current[i].id : i \in {j \in 1..Len(current) :
            /\ ~HasId(event_manager.pending_events, current[j].id)
            /\ ~HasId(event_manager.pending_events_for_the_next_cycle, current[j].id)}}

\* C3: no event is lost: when clear() discards an event, get_engine_events()
\* has returned it to both the Physics and the Render system.
C3_NoEventLost ==
    (pc = "clear" /\ ~panicked) => \A id \in Discarded : hist.delivered[id] = SystemType

Count(s, x) == Cardinality({i \in 1..Len(s) : s[i] = x})
ColliderCount(id) ==
    Cardinality({i \in 1..Len(physics.colliders) : physics.colliders[i].entity = id})

\* C5: in the scenario the systems defer instead of failing, and at the end of
\* a tick that began with the mesh loaded and readable nothing is pending and
\* each of the entities has exactly one render object, one rigid body and one
\* collider.
C5_ScenarioResolves ==
    /\ ~panicked
    /\ (pc = "clear" /\ hist.ready) =>
          /\ event_manager.pending_events = <<>>
          /\ event_manager.pending_events_for_the_next_cycle = <<>>
          /\ renderer.normal_objects = 0..(ScenarioEntities - 1)
          /\ \A id \in 0..(ScenarioEntities - 1) :
                Count(physics.bodies, id) = 1 /\ ColliderCount(id) = 1

\* C6: the entities list never contains the same id twice.
C6_UniqueEntityIds ==
    \A i, j \in 1..Len(world.entities) : i # j => world.entities[i] # world.entities[j]

\* C7: the four component arrays have the same length, the number of ids taken
\* from the counter, and every alive id is an index into them.
C7_ComponentArrays ==
    /\ Len(world.components.renderables) = ENTITY_ID
    /\ Len(world.components.positionable) = ENTITY_ID
    /\ Len(world.components.physics) = ENTITY_ID
    /\ Len(world.components.highlightable) = ENTITY_ID
    /\ \A i \in 1..Len(world.entities) : world.entities[i] \in 0..(ENTITY_ID - 1)
C7_Witness ==
    /\ hist.handed_out.recycled
    /\ ENTITY_ID >= 1
    /\ Len(world.entities) > ENTITY_ID

\* C8: the four slots of a recycled id are None when create_entity hands it out.
C8_RecycledSlotsBlank == hist.handed_out.recycled => hist.handed_out.blank

\* C9: a mesh key requested more than once is loaded once, and once two of its
\* requests are processed its one entry is loaded and has its payload.
C9_LoadedOnce ==
    \A k \in MeshKeys :
        /\ hist.loads[k] <= 1
        /\ hist.requests[k] >= 2 =>
              /\ hist.loads[k] = 1
              /\ mesh_data[k].present /\ mesh_data[k].is_loaded /\ mesh_data[k].mesh_type # None
C9_Witness ==
    /\ \E k \in MeshKeys : hist.requests[k] >= 2
    /\ loader.pc = "sleeping" /\ rw_lock = "free"

\* C10: an entry a reader can see with is_loaded set has its payload, and every
\* render object and every collider of an entity with a mesh was built from a
\* payload.
C10_LoadedHasPayload ==
    /\ rw_lock = "free" =>
          \A k \in MeshKeys : mesh_data[k].is_loaded => mesh_data[k].mesh_type # None
    /\ \A id \in renderer.normal_objects :
          mesh_data[Slot(world.components.renderables, id)].mesh_type # None
    /\ \A i \in 1..Len(physics.colliders) :
          LET mesh_label == Slot(world.components.renderables, physics.colliders[i].entity)
          IN  mesh_label # None => mesh_data[mesh_label].mesh_type # None
C10_Witness ==
    /\ rw_lock = "free"
    /\ \E k \in MeshKeys : mesh_data[k].is_loaded
    /\ renderer.normal_objects # {}
    /\ physics.colliders # <<>>

\* C11: every mesh request World::add_resource has pushed onto the resource
\* queue is eventually popped and its entry loaded, without a further request
\* (set aside the runs in which load_obj fails or the main thread panics).
C11_EveryRequestLoaded ==
    \A k \in MeshKeys :
        Contains(resource_queue, k) ~>
            (mesh_data[k].is_loaded \/ loader.pc = "dead" \/ panicked)

\* C12: while the loader is inside a mesh load, the main thread takes no lock
\* the loader holds: a request it makes with World::add_resource gets the queue
\* at once (the systems only ever call try_read(), which does not wait).
C12_MainNeverWaits ==
    (loader.pc = "loading" /\ pc = "input" /\ Running) => CanRequest

\* the bus holds the event with this id as pending for system s, in the pending
\* collection or in the staging list
Registered(id, s) ==
    \E e \in {event_manager.pending_events[i] : i \in 1..Len(event_manager.pending_events)}
         \cup {event_manager.pending_events_for_the_next_cycle[i] :
                  i \in 1..Len(event_manager.pending_events_for_the_next_cycle)} :
        e.id = id /\ is_pending_for(e, s)

\* C13: a system whose try_read() failed in a tick with EntityCreated events
\* delivered to it has registered itself with add_pending for each of them.
C13_DefersWhenLocked ==
    \A s \in SystemType : \A id \in hist.blocked[s] : Registered(id, s)

\* C14: Physics.update and Renderer.update never reach a fatal state: the main
\* thread does not panic inside a system's update.
C14_SystemsNeverPanic == panicked => pc = "input"

\* the ray of the CastRay event Physics has read, and the entity its answer names
RayRead == event_manager.engine_events[1].event_type.ray
RayReported == event_manager.engine_events1[1].event_type.entity
\* the first interference with the least time of impact
Nearest(ray) ==
    CHOOSE j \in 1..Len(ray) :
        /\ \A k \in 1..Len(ray) : ray[j].toi <= ray[k].toi
        /\ \A k \in 1..(j - 1) : ray[k].toi # ray[j].toi
\* the entity whose physics component has this collider handle, if there is one
Owner(collider) ==
    LET owners == {i \in 1..Len(world.components.physics) :
                      /\ world.components.physics[i].some
                      /\ world.components.physics[i].collider_handle = collider}
    IN  IF owners = {} THEN NoEntity ELSE (CHOOSE i \in owners : TRUE) - 1

\* C15: the RayCasted event names the entity owning the collider with the least
\* time of impact, the first of them in iteration order; None if the ray meets
\* no collider or no physics component owns the collider hit.
C15_NearestHit ==
    pc = "render" =>
        RayReported = IF RayRead = <<>> THEN NoEntity
                      ELSE Owner(RayRead[Nearest(RayRead)].collider)

\* C16: an event pushed with add_event in a tick is returned by
\* get_engine_events() to no system in that tick, and is in what
\* get_engine_events() returns once clear() has begun the tick after it.
C16_AddEventNextTick ==
    [][/\ \A id \in hist'.event_now : hist'.delivered[id] = {}
       /\ event_manager'.which_buff # event_manager.which_buff =>
             \A id \in hist.event_now : HasId(get_engine_events(event_manager'), id)]_vars

\* C17: remove_pending(id, s) panics exactly when no event with that id is in
\* the live pending collection, and a call that panics leaves the EventManager
\* as it found it.
C17_RemovePendingUnpaired ==
    hist.removal.called =>
        /\ hist.removal.failed <=> ~hist.removal.live
        /\ hist.removal.failed => (hist.removal.kept /\ panicked)

\* remove_pending was called for an id absent from the live pending collection
C17_Witness == hist.removal.called /\ ~hist.removal.live /\ panicked

\* the last element of a non-empty sequence
Last(s) == s[Len(s)]
\* the buffers of the event bus
Buffers == {"engine_events", "engine_events1"}

\* C18: a step in which create_entity returns an id, taken from the counter or
\* recycled, pushes exactly one event onto the event bus: an EntityCreated
\* event carrying that id.
C18_CreatePushesOne ==
    [][Len(world'.entities) > Len(world.entities) =>
          /\ \E buffer \in Buffers :
                /\ event_manager'[buffer] # <<>>
                /\ event_manager'[buffer] =
                      Append(event_manager[buffer], Last(event_manager'[buffer]))
                /\ Last(event_manager'[buffer]).event_type.kind = "EntityCreated"
                /\ Last(event_manager'[buffer]).event_type.entity = Last(world'.entities)
                /\ \A other \in Buffers \ {buffer} :
                      event_manager'[other] = event_manager[other]
          /\ event_manager'.pending_events = event_manager.pending_events
          /\ event_manager'.pending_events_for_the_next_cycle =
                event_manager.pending_events_for_the_next_cycle]_vars

\* create_entity has handed out a recycled id and its event is on the bus
C18_Witness ==
    /\ hist.handed_out.recycled
    /\ \E buffer \in Buffers :
          /\ event_manager[buffer] # <<>>
          /\ Last(event_manager[buffer]).event_type.kind = "EntityCreated"
          /\ Last(event_manager[buffer]).event_type.entity = Last(world.entities)
          /\ Last(event_manager[buffer]).id = EVENT_IDS - 1

\* the elements of a sequence
Range(s) == {s[i] : i \in 1..Len(s)}
\* every copy of an event the program holds: in the two buffers, in staging,
\* in the pending collection and in the list a system iterates
Copies ==
    Range(event_manager.engine_events) \cup Range(event_manager.engine_events1)
        \cup Range(event_manager.pending_events_for_the_next_cycle)
        \cup Range(event_manager.pending_events) \cup Range(snapshot)

\* C19: Event::new gives strictly increasing ids, so no two events constructed
\* apart have the same id, and every copy of an event keeps the id and the
\* payload it was constructed with: a step leaves the counter no lower, an id
\* below the counter belongs to a copy of an event held before the step, the
\* others are below the new counter, no buffer holds an id twice and two
\* copies with one id are copies of one event.
C19_EventIdsUnique ==
    [][/\ EVENT_IDS' >= EVENT_IDS
       /\ \A e \in Copies' :
             IF e.id < EVENT_IDS
             THEN \E f \in Copies : f.id = e.id /\ f.event_type = e.event_type
             ELSE e.id < EVENT_IDS'
       /\ NoDuplicateIds(event_manager'.engine_events)
       /\ NoDuplicateIds(event_manager'.engine_events1)
       /\ \A e, f \in Copies' : e.id = f.id => e.event_type = f.event_type]_vars

\* three events were constructed and one of them has copies that differ
C19_Witness ==
    /\ EVENT_IDS >= 3
    /\ \E e, f \in Copies : e.id = f.id /\ e # f
    /\ \E e, f \in Copies : e.id # f.id

\* C20: in a tick Physics.update runs before Renderer.update and neither runs
\* twice, and clear() runs only once both have run, which ends the tick.
C20_TickOrder ==
    [][/\ hist'.ran \in {<<>>, <<PhysicsSystem>>, <<PhysicsSystem, RenderSystem>>}
       /\ event_manager'.which_buff # event_manager.which_buff =>
             /\ hist.ran = <<PhysicsSystem, RenderSystem>>
             /\ hist'.ran = <<>>]_vars

\* a second tick in which both systems have run and clear() is next
C20_Witness ==
    /\ hist.ran = <<PhysicsSystem, RenderSystem>>
    /\ pc = "clear" /\ ~panicked
    /\ ~event_manager.which_buff

\* the index list divide_indices is given, and the triangles Physics built of it
IndicesRead == mesh_data[ScenarioKey].indices

\* C21: of an index list whose length is a multiple of 3 divide_indices makes
\* length/3 triples, the i-th of the elements at positions 3i, 3i+1, 3i+2
\* (counted from 0) in order; on any other list its assertion fails.
C21_DivideIndices ==
    pc = "render" =>
        IF Len(IndicesRead) % 3 = 0
        THEN /\ ~panicked
             /\ Len(physics.colliders) = 1
             /\ Len(physics.colliders[1].shape) = Len(IndicesRead) \div 3
             /\ \A i \in 0..((Len(IndicesRead) \div 3) - 1) :
                   physics.colliders[1].shape[i + 1] =
                       <<IndicesRead[3 * i + 1], IndicesRead[3 * i + 2], IndicesRead[3 * i + 3]>>
        ELSE panicked /\ physics.colliders = <<>>

\* two triangles were made of six indices that are not all the same
C21_Witness ==
    /\ pc = "render" /\ ~panicked
    /\ Len(IndicesRead) = 6
    /\ Len(physics.colliders) = 1
    /\ Len(physics.colliders[1].shape) = 2
    /\ physics.colliders[1].shape[1] # physics.colliders[1].shape[2]

\* C22: an event add_pending was called for while it was not in the live
\* pending collection is not in it for the rest of the tick, so the pending
\* part of get_engine_events() does not hold it, and is in it once clear()
\* has run, for the get_engine_events() of the next tick.
C22_StagedUntilClear ==
    [][/\ \A id \in hist'.staged : ~HasId(event_manager'.pending_events, id)
       /\ event_manager'.which_buff # event_manager.which_buff =>
             \A id \in hist.staged :
                /\ HasId(event_manager'.pending_events, id)
                /\ HasId(get_engine_events(event_manager'), id)]_vars

\* a system has called add_pending for a new event and clear() is next
C22_Witness == hist.staged # {} /\ pc = "clear" /\ ~panicked

\* the events a system can hand to add_pending whose id is live pending
LiveCopies == {e \in Copies : HasId(event_manager.pending_events, e.id)}
\* the systems of the live pending entry add_pending and remove_pending find
LiveSystems(em, id) == Range(em.pending_events[FirstWithId(em.pending_events, id)].pending_systems)

\* C23: add_pending(e, s) for an event whose id is live pending adds s to the
\* system set of that entry and changes no other entry, adds no entry and
\* nothing to staging, and a second call with the same s changes nothing.
C23_AddPendingLive ==
    \A e \in LiveCopies, s \in SystemType :
        LET once == add_pending(event_manager, e, s)
            i == FirstWithId(event_manager.pending_events, e.id)
        IN  /\ LiveSystems(once, e.id) = LiveSystems(event_manager, e.id) \cup {s}
            /\ Len(once.pending_events) = Len(event_manager.pending_events)
            /\ \A j \in 1..Len(once.pending_events) :
                  j # i => once.pending_events[j] = event_manager.pending_events[j]
            /\ once.pending_events[i].id = e.id
            /\ once.pending_events_for_the_next_cycle =
                  event_manager.pending_events_for_the_next_cycle
            /\ once.engine_events = event_manager.engine_events
            /\ once.engine_events1 = event_manager.engine_events1
            /\ add_pending(once, e, s) = once

\* a second system has called add_pending for an event that was live pending
C23_Witness ==
    \E i \in 1..Len(event_manager.pending_events) :
        /\ Range(event_manager.pending_events[i].pending_systems) = SystemType
        /\ event_manager.pending_events[i].id \notin hist.staged

\* the systems an event is pending for: those of every live pending entry with its id
PendingFor(em, id) ==
    UNION {Range(em.pending_events[i].pending_systems) :
              i \in {j \in 1..Len(em.pending_events) : em.pending_events[j].id = id}}
\* the live pending entries of the other events
Others(em, id) == SelectSeq(em.pending_events, LAMBDA x : x.id # id)

\* C24: remove_pending(id, s), called by a system s that holds a copy of a live
\* pending event marked for it, takes s and nothing else out of the systems the
\* event is pending for, evicts the event exactly if no system is left, and
\* leaves the entries of the other events, the buffers and staging as they were.
C24_RemovePendingFrame ==
    \A e \in Range(get_engine_events(event_manager)), s \in SystemType :
        (is_pending_for(e, s) /\ HasId(event_manager.pending_events, e.id)) =>
            LET after == remove_pending(event_manager, e.id, s)
                left == PendingFor(event_manager, e.id) \ {s}
            IN  /\ PendingFor(after, e.id) = left
                /\ HasId(after.pending_events, e.id) <=> left # {}
                /\ Others(after, e.id) = Others(event_manager, e.id)
                /\ after.pending_events_for_the_next_cycle =
                      event_manager.pending_events_for_the_next_cycle
                /\ after.engine_events = event_manager.engine_events
                /\ after.engine_events1 = event_manager.engine_events1
                /\ after.which_buff = event_manager.which_buff

\* the buffer get_engine_events reads and the other one
Current(em) == IF em.which_buff THEN em.engine_events ELSE em.engine_events1
Next_buffer(em) == IF em.which_buff THEN em.engine_events1 ELSE em.engine_events

\* C25: a step of clear() inverts the flag, leaves the buffer that was
\* current empty, the other buffer as it was and the staging list empty, and
\* every id that was in staging or live pending is live pending after it.
C25_ClearFrame ==
    [][event_manager'.which_buff # event_manager.which_buff =>
          /\ event_manager'.which_buff = ~event_manager.which_buff
          /\ Next_buffer(event_manager') = <<>>
          /\ Current(event_manager') = Next_buffer(event_manager)
          /\ event_manager'.pending_events_for_the_next_cycle = <<>>
          /\ \A id \in Ids(event_manager.pending_events)
                        \cup Ids(event_manager.pending_events_for_the_next_cycle) :
                HasId(event_manager'.pending_events, id)]_vars

\* clear() has run on a tick that put an event into the other buffer and
\* left a pending event
C25_Witness ==
    /\ pc = "input" /\ ~event_manager.which_buff
    /\ hist.engine_prev # {}
    /\ Current(event_manager) # <<>>
    /\ event_manager.pending_events # <<>>

\* C26: the list the Renderer takes with get_engine_events() is the current
\* buffer in insertion order, the order of the ids, followed by the live
\* pending collection in its order; taking it changes nothing of the bus; and
\* the Renderer iterates that list whatever its handlers do to the bus.
C26_SnapshotOfBus ==
    [][/\ (pc = "render" /\ pc' = "render_events") =>
             /\ snapshot' = Current(event_manager) \o event_manager.pending_events
             /\ \A i, j \in 1..Len(Current(event_manager)) :
                   i < j => snapshot'[i].id < snapshot'[j].id
             /\ event_manager' = event_manager
       /\ (pc = "render_events" /\ pc' = "render_events") => snapshot' = snapshot]_vars

\* the Renderer is iterating a list of buffer events and pending events and
\* the bus has changed since it took the list
C26_Witness ==
    /\ pc = "render_events" /\ idx > 1
    /\ snapshot # get_engine_events(event_manager)
    /\ \E i \in 1..Len(snapshot) : snapshot[i].pending_systems # <<>>
    /\ \E i \in 1..Len(snapshot) : snapshot[i].pending_systems = <<>>

\* the ids of the events the program holds a copy of
HeldIds == {e.id : e \in Copies}

\* C27: an event no system has called add_pending for has been returned by
\* get_engine_events() in the tick it was in the current buffer, the clear()
\* of that tick leaves no copy of it, and an event without a copy left never
\* has one again, so no later get_engine_events() returns it.
C27_ConsumedOnce ==
    [][/\ event_manager'.which_buff # event_manager.which_buff =>
             \A e \in Range(Current(event_manager)) :
                hist.adders[e.id] = {} =>
                    /\ hist.delivered[e.id] # {}
                    /\ e.id \notin HeldIds'
       /\ \A id \in 0..(EVENT_IDS - 1) : id \notin HeldIds => id \notin HeldIds']_vars

\* an event that was returned and that no system marked pending is gone, and
\* the tick after the one that dropped it is over too
C27_Witness ==
    /\ pc = "clear" /\ ~panicked
    /\ \E id \in 0..(EVENT_IDS - 1) :
          /\ id \notin HeldIds
          /\ hist.adders[id] = {}
          /\ hist.delivered[id] # {}

\* C28: a system that has handled an EntityCreated event of an entity with a
\* render component and found the mesh not ready, with no entry under the key
\* or an entry that is not loaded, is registered as pending for the event, so
\* that clear() carries it over and the next tick delivers it again.
C28_DefersUnreadyMesh ==
    \A s \in SystemType : \A id \in hist.unready[s] : Registered(id, s)

\* the rigid bodies Physics has inserted for an entity
BodyCount(id) == Cardinality({i \in 1..Len(physics.bodies) : physics.bodies[i] = id})
\* Physics is registered as pending for some event (DeferInit has one, the
\* EntityCreated event of its one entity)
PhysicsDeferred == \E id \in EventIdSpace : Registered(id, PhysicsSystem)

C30_FinishedNotPending ==
    (pc = "clear" /\ ~panicked) =>
        \A s \in SystemType : \A id \in hist.finished[s] : ~Registered(id, s)

\* C31: while the loader parses the mesh file, between inserting the
\* placeholder and writing the payload, it does not hold the write lock of
\* the resource store: a try_read() succeeds and sees the entry of the key
\* being loaded with is_loaded = false.
C31_ParsesUnlocked ==
    loader.pc = "loading" =>
        /\ rw_lock # "write"
        /\ mesh_data[loader.item].present /\ ~mesh_data[loader.item].is_loaded

C33_LoadedRequestNoOp ==
    [][/\ \A k \in MeshKeys :
            (mesh_data[k].present /\ mesh_data[k].is_loaded) =>
                hist'.loads[k] = hist.loads[k] /\ mesh_data'[k] = mesh_data[k]
       /\ \A k \in ShaderKeys :
            shaders[k] = Compiled =>
                hist'.compiles[k] = hist.compiles[k] /\ shaders'[k] = shaders[k]]_vars

\* C34: the bus has no expiry: an event that is live pending for a system stays
\* live pending for it, and is returned by get_engine_events(), through every
\* step in which that system has not called remove_pending for it.
C34_NoExpiry ==
    [][\A id \in EventIdSpace, s \in SystemType :
          (s \in PendingFor(event_manager, id) /\ s \notin hist'.removers[id]) =>
              /\ s \in PendingFor(event_manager', id)
              /\ HasId(get_engine_events(event_manager'), id)]_vars

\* C35: every event both systems have called add_pending for in one tick,
\* while it was not live pending, is after the clear() of that tick in the
\* pending collection with both systems in the pending set of its entry.
C35_BothSystemsKept ==
    [][event_manager'.which_buff # event_manager.which_buff =>
          \A id \in EventIdSpace :
              hist.stagers[id] = SystemType =>
                  /\ HasId(event_manager'.pending_events, id)
                  /\ LiveSystems(event_manager', id) = SystemType]_vars

\* C36: no system repeats the work of an EntityCreated event it has completed:
\* with one EntityCreated event for each entity, Render never builds a render
\* object for an entity that has one, and Physics has inserted at most one
\* rigid body and at most one collider for each entity.
C36_WorkDoneOnce ==
    /\ hist.reallocated = {}
    /\ \A i \in 1..Len(world.entities) :
          BodyCount(world.entities[i]) <= 1 /\ ColliderCount(world.entities[i]) <= 1

\* C37: a remove_pending(e.id, s) that a system s issues after it has called
\* add_pending(e, s) never panics, in the tick of the add_pending or later.
C37_PairedRemoveNeverFatal ==
    hist.fatal = {}

\* the events of one kind in a list
OfKind(s, kind) == {i \in 1..Len(s) : s[i].event_type.kind = kind}

\* C38: when clear() ends a tick, the buffer for the next tick holds one
\* RayCasted event for each CastRay event of the buffer the tick has read,
\* whether the resource store was locked in the tick or not; none of these
\* RayCasted events was returned by get_engine_events() in the tick and each
\* is returned in the next.
C38_RayAnswered ==
    [][event_manager'.which_buff # event_manager.which_buff =>
          /\ Cardinality(OfKind(Next_buffer(event_manager), "RayCasted")) =
                 Cardinality(OfKind(Current(event_manager), "CastRay"))
          /\ \A i \in OfKind(Next_buffer(event_manager), "RayCasted") :
                /\ ~HasId(get_engine_events(event_manager), Next_buffer(event_manager)[i].id)
                /\ HasId(get_engine_events(event_manager'), Next_buffer(event_manager)[i].id)]_vars

====
